---- MODULE Spec2Model ----
(***************************************************************************)
(* Model of the reminder scheduler of src/MainPage.js: the Firestore       *)
(* collections it reads and writes (tasks, users/{uid}/reminders,          *)
(* users/{uid}/group_reminders, groups/{gid}/group_reminders), the UI      *)
(* handlers that write them, and autoSchedule as a process that yields at  *)
(* every await.                                                            *)
(*                                                                         *)
(* Encodings.  A calendar date "YYYY-MM-DD" is the number of its day; an   *)
(* instant (Date, Firestore Timestamp) is a number of minutes since day 0  *)
(* 00:00 UTC; a time string "HH:MM" is the pair <<HH, MM>> of the two      *)
(* numbers it prints; a nullable field is None (<<>>) or Some(v) (<<v>>).  *)
(* Document ids are the numbers handed out by two counters (addDoc gives   *)
(* every document a fresh id).                                             *)
(***************************************************************************)
EXTENDS Integers, Sequences, FiniteSets, TLC

\* ---------------------------------------------------------------- bounds
MaxTasks     == 2   \* task documents ever created
MaxReminders == 2   \* reminder documents ever created
MaxWeekOffset == 1  \* weeks the calendar is moved away from the current one
MaxClones    == 2   \* clones of task elements in document.body at a time
MaxPending   == 1   \* finishDrag calls waiting for their updateDoc at a time
MaxListeners == 2   \* submit listeners counted on a group form
MaxGroups    == 2   \* group documents ever created by createGroup
MaxBusy      == 2   \* busy intervals of the date given to the slot finder
StartDay     == 1   \* the date of "now" (today); day 0 is yesterday
TimeOfDay    == 600 \* minutes past 00:00 UTC of "now"
TzWest       == 480 \* minutes the browser's local time is behind UTC

MaxDay   == StartDay + 3   \* last calendar date of the horizon
TzOffset == 0 - TzWest     \* local time minus UTC, in minutes

\* ------------------------------------------------------ program constants
MinutesPerDay == 1440
startOfDay    == 1080   \* 18 * 60
endOfDay      == 1440   \* 24 * 60

Users       == {"u1", "u2"}
currentUser == "u1"     \* the signed-in user of this browser session
GroupId     == "g1"     \* window.currentGroupId
Runs        == {1, 2}   \* browser tabs of currentUser

None    == << >>
Some(v) == << v >>

Dates == 0 .. MaxDay

\* JavaScript's truthiness of a nullable number (null, 0 are falsy)
TruthyNum(o) == o # None /\ o[1] # 0
\* ... and of a nullable object or non-empty string
TruthyObj(o) == o # None

\* JavaScript's % (the sign of the result is the sign of the dividend)
JsRem(a, b) == IF a >= 0 THEN a % b ELSE 0 - ((0 - a) % b)

Max(a, b) == IF a >= b THEN a ELSE b
Min(a, b) == IF a <= b THEN a ELSE b

\* ------------------------------------------------------- time arithmetic
\* the number NaN, kept apart from every number of minutes the program
\* computes; arithmetic with it gives NaN and every comparison with it
\* is false
NaN == 0 - 1000000
IsNaN(x) == x = NaN
Plus(a, b) == IF IsNaN(a) \/ IsNaN(b) THEN NaN ELSE a + b
Leq(a, b) == ~ IsNaN(a) /\ ~ IsNaN(b) /\ a <= b

\* timeToMinutes(timeStr): const [h, m] = timeStr.split(":").map(Number);
\* h * 60 + m.  A string is the sequence of its numeric parts: "18:00" is
\* << 18, 0 >>, "18" is << 18 >> and "" is << 0 >>; with fewer than two
\* parts m is undefined and the sum is NaN
timeToMinutes(timeStr) ==
    IF Len(timeStr) >= 2 THEN timeStr[1] * 60 + timeStr[2] ELSE NaN

\* minutesToTime(minutes) = floor(minutes / 60) ":" (minutes % 60)
minutesToTime(minutes) == << minutes \div 60, JsRem(minutes, 60) >>

\* Date.toISOString().slice(0, 10): the UTC calendar date of an instant
toISODate(t) == t \div MinutesPerDay

\* new Date("YYYY-MM-DD"): 00:00 UTC of that date
dateFromString(d) == d * MinutesPerDay

\* normalizeDate(d): the UTC date of a Timestamp, null for null
normalizeDate(d) == IF ~ TruthyObj(d) THEN None ELSE Some(toISODate(d[1]))

\* endOfDayLocalFromDate(d): 23:59 local time of the day after d's local date
endOfDayLocalFromDate(d) ==
    LET localDate == (d + TzOffset) \div MinutesPerDay
    IN  (localDate + 1) * MinutesPerDay + 23 * 60 + 59 - TzOffset

\* hours are kept exactly, as whole numbers of 1/3000 h: a minute is 50 of
\* them and the literal 0.083 is 249
PerHour == 3000
MinimumHours == (83 * PerHour) \div 1000

\* calculateDuration(startTime, endTime): the duration in hours
calculateDuration(startTime, endTime) ==
    IF ~ TruthyObj(startTime) \/ ~ TruthyObj(endTime)
    THEN 1 * PerHour
    ELSE LET startHour   == startTime[1][1]
             startMinute == startTime[1][2]
             endHour     == endTime[1][1]
             endMinute   == endTime[1][2]
             startTotalMinutes == startHour * 60 + startMinute
             endTotal          == endHour * 60 + endMinute
             endTotalMinutes   == IF endTotal < startTotalMinutes
                                  THEN endTotal + 24 * 60 ELSE endTotal
             durationMinutes == endTotalMinutes - startTotalMinutes
             durationHours   == durationMinutes * (PerHour \div 60)
         IN  IF durationHours > MinimumHours THEN durationHours
                                             ELSE MinimumHours

\* ------------------------------------------------------------ slot finder
\* a.start - b.start > 0; the comparator's NaN counts as 0
Gt(a, b) == ~ IsNaN(a) /\ ~ IsNaN(b) /\ a > b

\* Math.max(a, b)
MathMax(a, b) == IF IsNaN(a) \/ IsNaN(b) THEN NaN ELSE Max(a, b)

\* Array.prototype.sort((a, b) => a.start - b.start): stable insertion
RECURSIVE InsertByStart(_, _)
InsertByStart(sorted, s) ==
    IF sorted = << >> THEN << s >>
    ELSE IF ~ Gt(sorted[Len(sorted)].start, s.start) THEN Append(sorted, s)
    ELSE Append(InsertByStart(SubSeq(sorted, 1, Len(sorted) - 1), s),
                sorted[Len(sorted)])

RECURSIVE SortByStart(_)
SortByStart(slots) ==
    IF slots = << >> THEN << >>
    ELSE InsertByStart(SortByStart(SubSeq(slots, 1, Len(slots) - 1)),
                       slots[Len(slots)])

\* the for loop of findSlotForEstimate over the sorted slots
RECURSIVE Sweep(_, _, _, _)
Sweep(slots, i, cursor, duration) ==
    IF i > Len(slots) THEN None
    ELSE IF Leq(Plus(cursor, duration), slots[i].start)
         THEN Some([start |-> minutesToTime(cursor),
                    end   |-> minutesToTime(cursor + duration)])
         ELSE Sweep(slots, i + 1, MathMax(cursor, slots[i].end), duration)

findSlotForEstimate(busy, date, duration) ==
    LET raw   == busy[date]
        slots == [k \in 1 .. Len(raw) |->
                    [start |-> timeToMinutes(raw[k].start),
                     end   |-> timeToMinutes(raw[k].end)]]
    IN  Sweep(Append(SortByStart(slots), [start |-> endOfDay, end |-> endOfDay]),
              1, startOfDay, duration)

\* the documents of a collection in the order getDocs returns them (by id)
RECURSIVE DocIds(_)
DocIds(S) ==
    IF S = {} THEN << >>
    ELSE LET m == CHOOSE x \in S : \A y \in S : x <= y
         IN  << m >> \o DocIds(S \ {m})

\* buildBusySlots(tasks): date -> the {start, end} strings of its tasks
RECURSIVE buildBusySlots(_)
buildBusySlots(tasks) ==
    IF tasks = << >> THEN [d \in Dates |-> << >>]
    ELSE LET rest == buildBusySlots(SubSeq(tasks, 1, Len(tasks) - 1))
             task == tasks[Len(tasks)]
         IN  [rest EXCEPT ![task.date] =
                  Append(@, [start |-> task.startTime, end |-> task.time])]

\* ------------------------------------------------------------------ state
VARIABLES
    now,              \* the clock (new Date()), minutes since day 0 00:00 UTC;
                      \* it stands still in the behaviours checked here
    tasks,            \* collection "tasks": id -> document
    reminders,        \* users/{uid}/reminders: uid -> id -> document
    group_reminders,  \* users/{uid}/group_reminders: uid -> id -> document
    groups,           \* collection "groups": gid -> document
    groupCanon,       \* groups/{gid}/group_reminders: gid -> id -> document
    nextTaskId,       \* the id addDoc gives the next task
    nextReminderId,   \* the id addDoc gives the next reminder
    run,              \* per invocation slot: the locals and position of autoSchedule
    call,             \* the helper function applied on its own: its arguments
                      \* and, once it has returned, its result
    signedIn,         \* currentUser / auth.currentUser is not null
    entry,            \* the last entry point invoked with no user signed in
                      \* and the notification it showed ("none": nothing shown)
    taskList,         \* let tasks: the documents of the latest snapshot
    currentWeekOffset,
    weekDates,        \* the seven dates of the displayed week
    categoryFilters,  \* category -> checked
    calendar,         \* the .task-item elements of the grid, in document order
    isDragging,
    dragTask,         \* let draggedTask: null or the task object the
                      \* pressed element was rendered from
    draggedElement,   \* null or the id of the task of the pressed element
    dragClone,        \* "null", or a clone that is "attached" to
                      \* document.body or "detached" from it
    autoScrollInterval, \* TRUE: holds the handle of an interval
    listening,        \* the move and up listeners are on the document
    bodyClones,       \* number of clones that are children of document.body
    timers,           \* number of intervals set and not cleared
    pending,          \* the updates of the finishDrag calls waiting in
                      \* await updateDoc, in the order they were issued
    userDocs,         \* collection "users": uid -> document
    nextGroupId,      \* index of the id addDoc gives the next group
    gcall,            \* per call slot: the locals and position of a
                      \* createGroup or joinGroup call
    groupListeners,   \* submit listeners on each of the two group forms,
                      \* counted up to MaxListeners
    submitted         \* the last group form submitted and the number of
                      \* createGroup / joinGroup calls its listeners made

\* the state of the page (MainPage.js module variables and the DOM)
authVars == << signedIn, entry >>
renderVars == << taskList, currentWeekOffset, weekDates, categoryFilters,
                 calendar >>
dragVars == << isDragging, dragTask, draggedElement, dragClone,
               autoScrollInterval, listening, bodyClones, timers, pending >>
pageVars == << authVars, renderVars, dragVars >>
groupVars == << userDocs, nextGroupId, gcall, groupListeners, submitted >>

vars == << now, tasks, reminders, group_reminders, groups, groupCanon,
           nextTaskId, nextReminderId, run, call, pageVars, groupVars >>

storeVars == << tasks, reminders, group_reminders, groups, groupCanon,
                nextTaskId, nextReminderId >>

\* the locals of an autoSchedule invocation that has not started
IdleRun ==
    [pc        |-> "idle",
     reminders |-> << >>,   \* const reminders (sorted in place)
     tasks     |-> << >>,   \* const tasks
     busy      |-> [d \in Dates |-> << >>],
     i         |-> 0,       \* index of r in the for loop
     dateStr   |-> 0,
     slot      |-> None,
     taskId    |-> None,
     placed    |-> << >>,   \* history: what this run wrote, in order
     today     |-> 0]       \* history: the date of "today" when the run began

\* no helper function is being applied on its own
NoCall == [fn |-> "none"]

\* the slots of the createGroup and joinGroup calls in progress
GroupCalls == 1 .. MaxListeners

\* the ids addDoc gives the groups created, in order
NewGroupIds == << "g2", "g3", "g4", "g5" >>

\* the locals of a createGroup / joinGroup call that is not in progress;
\* before is history: the groups and users collections when it was called
IdleCall ==
    [fn            |-> "none",
     pc            |-> "idle",
     uid           |-> "",
     groupId       |-> "",
     members       |-> << >>,    \* groupData.members
     currentGroups |-> << >>,
     result        |-> "none",
     failed        |-> FALSE,    \* history: the catch block was entered
     before        |-> << >>]

\* no entry point has been invoked with no user signed in
NoEntry == [name |-> "none", notice |-> "none"]

\* Date.getDay() of a calendar date, 0 = Sunday; day 0 is a Saturday
getDay(date) == (date + 6) % 7

\* getMonday(d): noon local time of the Monday of d's week
getMonday(d) ==
    LET localDate == (d + TzOffset) \div MinutesPerDay
        day       == getDay(localDate)
        diff      == localDate - day + (IF day = 0 THEN 0 - 6 ELSE 1)
    IN  diff * MinutesPerDay + 12 * 60 - TzOffset

\* updateWeekDisplay(): weekDates for the week offset, as of the instant today
getWeekDates(today, offset) ==
    LET monday == getMonday(today) + offset * 7 * MinutesPerDay
    IN  [i \in 1 .. 7 |-> toISODate(monday + (i - 1) * MinutesPerDay)]

Categories == { "study", "work", "exercise", "group" }

\* the page once it is loaded and the first auth event has signed u1 in;
\* no snapshot of the tasks has arrived yet
InitPage ==
    /\ signedIn = TRUE
    /\ entry = NoEntry
    /\ taskList = << >>
    /\ currentWeekOffset = 0
    /\ weekDates = getWeekDates(StartDay * MinutesPerDay + TimeOfDay, 0)
    /\ categoryFilters = [c \in Categories |-> TRUE]
    /\ calendar = << >>
    /\ isDragging = FALSE
    /\ dragTask = None
    /\ draggedElement = None
    /\ dragClone = "null"
    /\ autoScrollInterval = FALSE
    /\ listening = FALSE
    /\ bodyClones = 0
    /\ timers = 0
    /\ pending = << >>
    /\ userDocs = [u \in Users |-> [groups |-> << >>]]
    /\ nextGroupId = 1
    /\ gcall = [p \in GroupCalls |-> IdleCall]
    /\ groupListeners = 1
    /\ submitted = [form |-> "none", calls |-> 0]

\* the store and the page after sign-in
InitStore ==
    /\ InitPage
    /\ now = StartDay * MinutesPerDay + TimeOfDay
    /\ tasks = << >>
    /\ reminders = [u \in Users |-> << >>]
    /\ group_reminders = [u \in Users |-> << >>]
    /\ groups = [g \in {GroupId} |-> [members |-> << "u1", "u2" >>]]
    /\ groupCanon = [g \in {GroupId} |-> << >>]
    /\ nextTaskId = 1
    /\ nextReminderId = 1
    /\ run = [p \in Runs |-> IdleRun]

Init == InitStore /\ call = NoCall

\* the same with a group of another owner that u1 and u2 have not joined
InitJoin ==
    /\ InitPage
    /\ now = StartDay * MinutesPerDay + TimeOfDay
    /\ tasks = << >>
    /\ reminders = [u \in Users |-> << >>]
    /\ group_reminders = [u \in Users |-> << >>]
    /\ groups = [g \in {GroupId} |-> [members |-> << "u0" >>]]
    /\ groupCanon = [g \in {GroupId} |-> << >>]
    /\ nextTaskId = 1
    /\ nextReminderId = 1
    /\ run = [p \in Runs |-> IdleRun]
    /\ call = NoCall

\* f with the document doc stored under id
Put(f, id, doc) == [k \in DOMAIN f \cup {id} |-> IF k = id THEN doc ELSE f[k]]
\* f without the document id
Drop(f, id) == [k \in DOMAIN f \ {id} |-> f[k]]

\* ------------------------------------------------------- inputs of the UI
FormDates  == { StartDay }
FormStarts == { << 18, 0 >> }
FormEnds   == { Some(<< 21, 0 >>), Some(<< 23, 59 >>) }
DragHours  == { 23 }
DueInputs  == { None, Some(StartDay - 1), Some(StartDay) }
EstimateInputs == { None, Some(0), Some(0 - 30), Some(180) }

\* ----------------------------------------------------------- task form
\* taskForm submit handler
TaskFormSubmit(taskDate, taskStartTime, taskTime) ==
    /\ signedIn
    /\ nextTaskId <= MaxTasks
    /\ LET rejected ==
             /\ TruthyObj(taskTime)
             /\ \/ taskTime[1][1] < taskStartTime[1]
                \/ /\ taskTime[1][1] = taskStartTime[1]
                   /\ taskTime[1][2] <= taskStartTime[2]
       IN  IF rejected
           THEN UNCHANGED << tasks, nextTaskId >>
           ELSE /\ tasks' = Put(tasks, nextTaskId,
                       [userId    |-> currentUser,
                        name      |-> "task",
                        category  |-> "study",
                        date      |-> taskDate,
                        startTime |-> taskStartTime,
                        time      |-> IF TruthyObj(taskTime) THEN taskTime[1]
                                                             ELSE taskStartTime])
                /\ nextTaskId' = nextTaskId + 1
    /\ UNCHANGED << call, pageVars, groupVars, now, reminders, group_reminders, groups, groupCanon,
                    nextReminderId, run >>

\* ------------------------------------------------------------ drag-and-drop
\* mutant: the update also writes the category of a task of the form
FinishDrag_resetsCategory(firestoreId, newDate, hour) ==
    /\ signedIn
    /\ firestoreId \in DOMAIN tasks
    /\ LET draggedTask     == tasks[firestoreId]
           oldStartTime    == draggedTask.startTime
           oldStartMinute  == oldStartTime[2]
           newStartTime    == << hour, oldStartMinute >>
           oldEndTime      == draggedTask.time
           oldStartMinutes == oldStartTime[1] * 60 + oldStartTime[2]
           oldEndMinutes   == oldEndTime[1] * 60 + oldEndTime[2]
           diff            == oldEndMinutes - oldStartMinutes
           durationMinutes == IF diff < 0 THEN diff + 24 * 60 ELSE diff
           newStartMinutes == hour * 60 + oldStartMinute
           newEndMinutes   == newStartMinutes + durationMinutes
           newEndTime      == << (newEndMinutes \div 60) % 24, newEndMinutes % 60 >>
       IN  /\ draggedTask.date # newDate \/ draggedTask.startTime # newStartTime
           /\ tasks' = [tasks EXCEPT ![firestoreId] =
                           [@ EXCEPT !.date = newDate,
                                     !.startTime = newStartTime,
                                     !.time = newEndTime,
                                     !.category = "study"]]
    /\ UNCHANGED << call, pageVars, groupVars, now, reminders, group_reminders, groups, groupCanon,
                    nextTaskId, nextReminderId, run >>

FinishDrag_keepsEnd(firestoreId, newDate, hour) ==
    /\ signedIn
    /\ firestoreId \in DOMAIN tasks
    /\ LET draggedTask     == tasks[firestoreId]
           oldStartTime    == draggedTask.startTime
           oldStartMinute  == oldStartTime[2]
           newStartTime    == << hour, oldStartMinute >>
       IN  /\ draggedTask.date # newDate \/ draggedTask.startTime # newStartTime
           /\ tasks' = [tasks EXCEPT ![firestoreId] =
                           [@ EXCEPT !.date = newDate,
                                     !.startTime = newStartTime]]
    /\ UNCHANGED << call, pageVars, groupVars, now, reminders, group_reminders, groups, groupCanon,
                    nextTaskId, nextReminderId, run >>

\* finishDrag: the task dropped on the cell (newDate, hour)
FinishDrag(firestoreId, newDate, hour) ==
    /\ signedIn
    /\ firestoreId \in DOMAIN tasks
    /\ LET draggedTask     == tasks[firestoreId]
           oldStartTime    == draggedTask.startTime
           oldStartMinute  == oldStartTime[2]
           newStartTime    == << hour, oldStartMinute >>
           oldEndTime      == draggedTask.time
           oldStartMinutes == oldStartTime[1] * 60 + oldStartTime[2]
           oldEndMinutes   == oldEndTime[1] * 60 + oldEndTime[2]
           diff            == oldEndMinutes - oldStartMinutes
           durationMinutes == IF diff < 0 THEN diff + 24 * 60 ELSE diff
           newStartMinutes == hour * 60 + oldStartMinute
           newEndMinutes   == newStartMinutes + durationMinutes
           newEndTime      == << (newEndMinutes \div 60) % 24, newEndMinutes % 60 >>
       IN  /\ draggedTask.date # newDate \/ draggedTask.startTime # newStartTime
           /\ tasks' = [tasks EXCEPT ![firestoreId] =
                           [@ EXCEPT !.date = newDate,
                                     !.startTime = newStartTime,
                                     !.time = newEndTime]]
    /\ UNCHANGED << call, pageVars, groupVars, now, reminders, group_reminders, groups, groupCanon,
                    nextTaskId, nextReminderId, run >>

\* -------------------------------------------------------------- reminders
\* addReminder(userId, {title, dueDate, estimate}) called by the form handler
\* with dueDate = new Date(dueDateValue), estimate = parseInt(estimateValue)
addReminder(dueDateValue, estimate) ==
    /\ signedIn
    /\ nextReminderId <= MaxReminders
    /\ LET dueDate == IF TruthyObj(dueDateValue)
                      THEN Some(dateFromString(dueDateValue[1])) ELSE None
           due     == IF TruthyObj(dueDate)
                      THEN Some(endOfDayLocalFromDate(dueDate[1])) ELSE None
       IN  reminders' = [reminders EXCEPT ![currentUser] =
               Put(@, nextReminderId,
                   [title            |-> "reminder",
                    due_date         |-> due,
                    estimate_minutes |-> estimate,
                    eventLink        |-> None,
                    is_completed     |-> FALSE,
                    finished_at      |-> None])]
    /\ nextReminderId' = nextReminderId + 1
    /\ UNCHANGED << call, pageVars, groupVars, now, tasks, group_reminders, groups, groupCanon,
                    nextTaskId, run >>

RECURSIVE FanOut(_, _, _, _)
\* the for loop of addGroupReminder over the members of the group
FanOut(coll, members, reminderId, doc) ==
    IF members = << >> THEN coll
    ELSE FanOut([coll EXCEPT ![Head(members)] = Put(@, reminderId, doc)],
                Tail(members), reminderId, doc)

\* addGroupReminder(userId, groupId, {title, dueDate, estimate})
addGroupReminder(groupId, dueDateValue, estimate) ==
    /\ signedIn
    /\ nextReminderId <= MaxReminders
    /\ groupId \in DOMAIN groups
    /\ LET dueDate == IF TruthyObj(dueDateValue)
                      THEN Some(dateFromString(dueDateValue[1])) ELSE None
           members == groups[groupId].members
           due     == IF TruthyObj(dueDate)
                      THEN Some(endOfDayLocalFromDate(dueDate[1])) ELSE None
           est     == IF TruthyNum(estimate) THEN estimate ELSE None
           reminderId == nextReminderId
       IN  /\ groupCanon' = [groupCanon EXCEPT ![groupId] =
                   Put(@, reminderId,
                       [title            |-> "reminder",
                        due_date         |-> due,
                        estimate_minutes |-> est,
                        created_by       |-> currentUser])]
           /\ group_reminders' = FanOut(group_reminders, members, reminderId,
                       [title            |-> "reminder",
                        due_date         |-> dueDate,
                        estimate_minutes |-> est,
                        group_id         |-> groupId,
                        reminder_id      |-> reminderId,
                        eventLink        |-> None,
                        is_completed     |-> FALSE,
                        finished_at      |-> None])
    /\ nextReminderId' = nextReminderId + 1
    /\ UNCHANGED << call, pageVars, groupVars, now, tasks, reminders, groups, nextTaskId, run >>

\* mutant: un-completing leaves the completion time in place
toggleReminderCompleted_keepsTime(userId, reminderId, currentState) ==
    /\ signedIn
    /\ reminderId \in DOMAIN reminders[userId]
    /\ reminders' = [reminders EXCEPT ![userId][reminderId] =
           [@ EXCEPT !.is_completed = ~ currentState,
                     !.finished_at  = IF ~ currentState THEN Some(now) ELSE @]]
    /\ UNCHANGED << call, pageVars, groupVars, now, tasks, group_reminders, groups, groupCanon,
                    nextTaskId, nextReminderId, run >>

\* toggleReminderCompleted(userId, reminderId, currentState), called by the
\* checkbox of a card rendered from the latest snapshot
toggleReminderCompleted(userId, reminderId, currentState) ==
    /\ signedIn
    /\ reminderId \in DOMAIN reminders[userId]
    /\ reminders' = [reminders EXCEPT ![userId][reminderId] =
           [@ EXCEPT !.is_completed = ~ currentState,
                     !.finished_at  = IF ~ currentState THEN Some(now) ELSE None]]
    /\ UNCHANGED << call, pageVars, groupVars, now, tasks, group_reminders, groups, groupCanon,
                    nextTaskId, nextReminderId, run >>

\* toggleGroupReminderCompleted(userId, reminderId, currentState)
toggleGroupReminderCompleted(userId, reminderId, currentState) ==
    /\ signedIn
    /\ reminderId \in DOMAIN group_reminders[userId]
    /\ group_reminders' = [group_reminders EXCEPT ![userId][reminderId] =
           [@ EXCEPT !.is_completed = ~ currentState,
                     !.finished_at  = IF ~ currentState THEN Some(now) ELSE None]]
    /\ UNCHANGED << call, pageVars, groupVars, now, tasks, reminders, groups, groupCanon,
                    nextTaskId, nextReminderId, run >>

\* ----------------------------------------------------------- delete reminder
\* mutant: the handler also deletes the task the reminder links to
ConfirmDelete_cascade(pendingDeleteId) ==
    /\ signedIn
    /\ \/ pendingDeleteId \in DOMAIN reminders[currentUser]
       \/ pendingDeleteId \in DOMAIN group_reminders[currentUser]
    /\ reminders' = [reminders EXCEPT ![currentUser] = Drop(@, pendingDeleteId)]
    /\ group_reminders' = [group_reminders EXCEPT ![currentUser] =
                              Drop(@, pendingDeleteId)]
    /\ tasks' = [t \in { x \in DOMAIN tasks :
                           Some(x) \notin
                             { reminders[currentUser][r].eventLink :
                                 r \in DOMAIN reminders[currentUser] \cap {pendingDeleteId} }
                             \cup
                             { group_reminders[currentUser][r].eventLink :
                                 r \in DOMAIN group_reminders[currentUser] \cap {pendingDeleteId} } }
                   |-> tasks[t]]
    /\ UNCHANGED << call, pageVars, groupVars, now, groups, groupCanon, nextTaskId, nextReminderId, run >>

\* confirm-yes click handler for the card openDeletePopup was called for:
\* deleteReminder(uid, id), then deleteGroupReminder(uid, id); deleteDoc of
\* a document that does not exist succeeds and changes nothing
ConfirmDelete(pendingDeleteId) ==
    /\ signedIn
    /\ \/ pendingDeleteId \in DOMAIN reminders[currentUser]
       \/ pendingDeleteId \in DOMAIN group_reminders[currentUser]
    /\ reminders' = [reminders EXCEPT ![currentUser] = Drop(@, pendingDeleteId)]
    /\ group_reminders' = [group_reminders EXCEPT ![currentUser] =
                              Drop(@, pendingDeleteId)]
    /\ UNCHANGED << call, pageVars, groupVars, now, tasks, groups, groupCanon,
                    nextTaskId, nextReminderId, run >>

\* --------------------------------------------------------------- deleteTask
\* the for loop of deleteTask over the reminders the query returned
ClearLinks(coll, firestoreId) ==
    [id \in DOMAIN coll |->
        IF coll[id].eventLink = Some(firestoreId)
        THEN [coll[id] EXCEPT !.eventLink = None] ELSE coll[id]]

\* deleteTask(firestoreId), every store call succeeding
deleteTask(firestoreId) ==
    /\ signedIn
    /\ firestoreId \in DOMAIN tasks
    /\ tasks' = Drop(tasks, firestoreId)
    /\ reminders' = [reminders EXCEPT ![currentUser] = ClearLinks(@, firestoreId)]
    /\ UNCHANGED << call, pageVars, groupVars, now, group_reminders, groups, groupCanon,
                    nextTaskId, nextReminderId, run >>

\* ------------------------------------------------------------- autoSchedule
\* the filter and normalisation getUnscheduledReminders applies to one
\* collection, its documents taken in snapshot order
Normalized(coll, type) ==
    LET Eligible(id) == /\ ~ coll[id].is_completed
                        /\ TruthyObj(coll[id].due_date)
                        /\ TruthyNum(coll[id].estimate_minutes)
        ids == SelectSeq(DocIds(DOMAIN coll), Eligible)
    IN  [k \in 1 .. Len(ids) |->
            [id        |-> ids[k],
             title     |-> coll[ids[k]].title,
             dueDate   |-> normalizeDate(coll[ids[k]].due_date),
             estimate  |-> coll[ids[k]].estimate_minutes,
             eventLink |-> coll[ids[k]].eventLink,
             type      |-> type]]

\* getUnscheduledReminders(userId): personal first, then group copies
getUnscheduledReminders(userId) ==
    Normalized(reminders[userId], "personal")
        \o Normalized(group_reminders[userId], "group")

\* getExistingTasks(userId): the user's task documents, each with its id
getExistingTasks(userId) ==
    LET Mine(id) == tasks[id].userId = userId
        ids == SelectSeq(DocIds(DOMAIN tasks), Mine)
    IN  [k \in 1 .. Len(ids) |->
            [id        |-> ids[k],
             date      |-> tasks[ids[k]].date,
             startTime |-> tasks[ids[k]].startTime,
             time      |-> tasks[ids[k]].time]]

\* new Date(r.dueDate) as the sort key (new Date(null) is the epoch)
DueKey(r) == IF TruthyObj(r.dueDate) THEN dateFromString(r.dueDate[1]) ELSE 0

\* reminders.sort((a, b) => new Date(a.dueDate) - new Date(b.dueDate)): stable
RECURSIVE InsertByDue(_, _)
InsertByDue(sorted, r) ==
    IF sorted = << >> THEN << r >>
    ELSE IF DueKey(sorted[Len(sorted)]) <= DueKey(r) THEN Append(sorted, r)
    ELSE Append(InsertByDue(SubSeq(sorted, 1, Len(sorted) - 1), r),
                sorted[Len(sorted)])

RECURSIVE SortByDue(_)
SortByDue(rs) ==
    IF rs = << >> THEN << >>
    ELSE InsertByDue(SortByDue(SubSeq(rs, 1, Len(rs) - 1)), rs[Len(rs)])

\* the while loop of autoSchedule over the candidate dates: the first date,
\* from iterDate on and while iterDate <= dueDateObj, that has a slot
RECURSIVE SearchDates(_, _, _, _)
SearchDates(busy, iterDate, dueDateObj, duration) ==
    IF ~ (iterDate <= dueDateObj) THEN None
    ELSE LET dateStr == toISODate(iterDate)
             slot    == findSlotForEstimate(busy, dateStr, duration)
         IN  IF slot # None
             THEN Some([dateStr |-> dateStr, slot |-> slot[1]])
             ELSE SearchDates(busy, iterDate + MinutesPerDay, dueDateObj, duration)

\* let iterDate = new Date(Math.min(today.getTime(), dueDateObj.getTime()))
SearchStart(today, dueDateObj) == Min(today, dueDateObj)

\* the reminder r of the current iteration of the for loop
CurR(p) == run[p].reminders[run[p].i]

InLoop(p) == run[p].pc = "loop" /\ run[p].i <= Len(run[p].reminders)

\* if (!r.dueDate || !duration) continue;
Skipped(r) == ~ TruthyObj(r.dueDate) \/ ~ TruthyNum(r.estimate)

\* mutant: the search looks at the tasks the store holds now instead of the
\* busy index the run built from its own read
Found_live(p) ==
    LET r == CurR(p)
        dueDateObj == dateFromString(r.dueDate[1])
    IN  SearchDates(buildBusySlots(getExistingTasks(currentUser)),
                    SearchStart(now, dueDateObj), dueDateObj, r.estimate[1])

\* the date and slot the while loop stops at for r, None when it finds none
Found(p) ==
    LET r == CurR(p)
        dueDateObj == dateFromString(r.dueDate[1])
    IN  SearchDates(run[p].busy, SearchStart(now, dueDateObj), dueDateObj,
                    r.estimate[1])

\* mutant: the branch on r.eventLink always takes the create path
HasLink_never(r) == FALSE

\* if (r.eventLink): the reminder the run read already has a task
HasLink(r) == TruthyObj(r.eventLink)

\* busy[dateStr].push({start, end}); scheduled = true; next r
Advance(self, pushed) ==
    [self EXCEPT !.busy = IF pushed = None THEN @
                          ELSE [@ EXCEPT ![pushed[1].dateStr] =
                                   Append(@, pushed[1].slot)],
                 !.i = @ + 1,
                 !.pc = "loop",
                 !.taskId = None,
                 !.slot = None,
                 !.dateStr = 0]

\* the auto-schedule button: autoSchedule(user.uid) up to its first read
AS_Start(p) ==
    /\ signedIn
    /\ run[p].pc = "idle"
    /\ run' = [run EXCEPT ![p] =
                  [IdleRun EXCEPT !.pc = "readTasks",
                                  !.reminders = getUnscheduledReminders(currentUser),
                                  !.today = toISODate(now)]]
    /\ UNCHANGED << call, pageVars, groupVars, now, storeVars >>

\* const tasks = await getExistingTasks(userId); buildBusySlots; sort
AS_ReadTasks(p) ==
    /\ run[p].pc = "readTasks"
    /\ LET ts == getExistingTasks(currentUser)
       IN  run' = [run EXCEPT ![p].tasks = ts,
                              ![p].busy = buildBusySlots(ts),
                              ![p].reminders = SortByDue(@),
                              ![p].i = 1,
                              ![p].pc = "loop"]
    /\ UNCHANGED << call, pageVars, groupVars, now, storeVars >>

\* r is skipped, or no date of its range has a slot ("No space to schedule")
AS_NoSlot(p) ==
    /\ InLoop(p)
    /\ Skipped(CurR(p)) \/ Found(p) = None
    /\ run' = [run EXCEPT ![p] = Advance(@, None)]
    /\ UNCHANGED << call, pageVars, groupVars, now, storeVars >>

\* what the run records about a write (history)
Placement(p, taskId, created) ==
    [type    |-> CurR(p).type,
     id      |-> CurR(p).id,
     due     |-> CurR(p).dueDate[1],
     estimate |-> CurR(p).estimate[1],
     task    |-> taskId,
     created |-> created,
     date    |-> Found(p)[1].dateStr,
     start   |-> Found(p)[1].slot.start,
     end     |-> Found(p)[1].slot.end,
     today   |-> toISODate(now)]

\* updateTask(taskId, {date, startTime, endTime}): updateDoc of the task,
\* which throws when the document does not exist
updateTask(taskId, date, startTime, endTime) ==
    tasks' = [tasks EXCEPT ![taskId] =
                 [@ EXCEPT !.date = date, !.startTime = startTime,
                           !.time = endTime]]

\* r has an eventLink: await updateTask(r.eventLink, ...), then the push
AS_UpdateTask(p) ==
    /\ InLoop(p)
    /\ ~ Skipped(CurR(p))
    /\ Found(p) # None
    /\ HasLink(CurR(p))
    /\ LET taskId == CurR(p).eventLink[1]
           f      == Found(p)[1]
       IN  IF taskId \in DOMAIN tasks
           THEN /\ updateTask(taskId, f.dateStr, f.slot.start, f.slot.end)
                /\ run' = [run EXCEPT ![p] =
                       [Advance(@, Found(p)) EXCEPT !.placed =
                           Append(@, Placement(p, taskId, FALSE))]]
           ELSE /\ tasks' = tasks
                /\ run' = [run EXCEPT ![p].pc = "failed"]
    /\ UNCHANGED << call, pageVars, groupVars, now, reminders, group_reminders, groups, groupCanon,
                    nextTaskId, nextReminderId >>

\* createTask({userId, name, date, startTime, endTime}): addDoc of a task
createTask(userId, name, date, startTime, endTime) ==
    /\ tasks' = Put(tasks, nextTaskId,
                    [userId    |-> userId,
                     name      |-> name,
                     category  |-> "work",
                     date      |-> date,
                     startTime |-> startTime,
                     time      |-> endTime])
    /\ nextTaskId' = nextTaskId + 1

\* r has no eventLink: taskId = await createTask(...)
AS_CreateTask(p) ==
    /\ InLoop(p)
    /\ ~ Skipped(CurR(p))
    /\ Found(p) # None
    /\ ~ HasLink(CurR(p))
    /\ nextTaskId <= MaxTasks
    /\ LET f == Found(p)[1]
       IN  /\ createTask(currentUser, CurR(p).title, f.dateStr,
                         f.slot.start, f.slot.end)
           /\ run' = [run EXCEPT ![p].pc = "link",
                                 ![p].taskId = Some(nextTaskId),
                                 ![p].dateStr = f.dateStr,
                                 ![p].slot = Some(f.slot),
                                 ![p].placed =
                                     Append(@, Placement(p, nextTaskId, TRUE))]
    /\ UNCHANGED << call, pageVars, groupVars, now, reminders, group_reminders, groups, groupCanon,
                    nextReminderId >>

\* mutant: the link is written to the personal collection whatever the type
updateReminderLink_personalOnly(userId, reminder, taskId) ==
    /\ LET coll == reminders[userId]
       IN  reminders' = [reminders EXCEPT ![userId] =
               [id \in DOMAIN coll |->
                   IF id = reminder.id
                   THEN [coll[id] EXCEPT !.eventLink = Some(taskId)]
                   ELSE coll[id]]]
    /\ UNCHANGED group_reminders

\* updateReminderLink(userId, reminder, taskId): updateDoc of the reminder
\* in the collection its type names
updateReminderLink(userId, reminder, taskId) ==
    IF reminder.type = "group"
    THEN /\ group_reminders' = [group_reminders EXCEPT
                ![userId][reminder.id].eventLink = Some(taskId)]
         /\ UNCHANGED reminders
    ELSE /\ reminders' = [reminders EXCEPT
                ![userId][reminder.id].eventLink = Some(taskId)]
         /\ UNCHANGED group_reminders

\* await updateReminderLink(userId, r, taskId), then the push
AS_Link(p) ==
    /\ run[p].pc = "link"
    /\ updateReminderLink(currentUser, CurR(p), run[p].taskId[1])
    /\ run' = [run EXCEPT ![p] =
           Advance(@, Some([dateStr |-> run[p].dateStr, slot |-> run[p].slot[1]]))]
    /\ UNCHANGED << call, pageVars, groupVars, now, tasks, groups, groupCanon, nextTaskId, nextReminderId >>

\* the for loop is over: "Auto schedule complete"
AS_Finish(p) ==
    /\ run[p].pc = "loop"
    /\ run[p].i > Len(run[p].reminders)
    /\ run' = [run EXCEPT ![p].pc = "done"]
    /\ UNCHANGED << call, pageVars, groupVars, now, storeVars >>

\* a store write of the run is rejected: the await throws, and nothing in
\* autoSchedule or in the click handler catches it
AS_WriteFails(p) ==
    /\ \/ run[p].pc = "link"
       \/ InLoop(p) /\ ~ Skipped(CurR(p)) /\ Found(p) # None
    /\ run' = [run EXCEPT ![p].pc = "failed"]
    /\ UNCHANGED << call, pageVars, groupVars, now, storeVars >>

\* the page is closed while the run is between two awaits
AS_Teardown(p) ==
    /\ run[p].pc \in {"readTasks", "loop", "link"}
    /\ run' = [run EXCEPT ![p].pc = "torn"]
    /\ UNCHANGED << call, pageVars, groupVars, now, storeVars >>

\* autoSchedule returns (or its rejection is reported): its locals are gone
AS_Return(p) ==
    /\ run[p].pc \in {"done", "failed", "torn"}
    /\ run' = [run EXCEPT ![p] = IdleRun]
    /\ UNCHANGED << call, pageVars, groupVars, now, storeVars >>

\* ---------------------------------------------------------- specifications
\* no autoSchedule is between two of its awaits
Quiescent == \A p \in Runs : run[p].pc = "idle"

Scheduler(p) ==
    \/ AS_Start(p)
    \/ AS_ReadTasks(p)
    \/ AS_NoSlot(p)
    \/ AS_UpdateTask(p)
    \/ AS_CreateTask(p)
    \/ AS_Link(p)
    \/ AS_Finish(p)
    \/ AS_Return(p)

\* ----------------------------------------------------------------- calendar
\* index of x in the sequence seq, 0 - 1 when it is not there
IndexOf(seq, x) ==
    IF \E i \in 1 .. Len(seq) : seq[i] = x
    THEN (CHOOSE i \in 1 .. Len(seq) :
              seq[i] = x /\ \A j \in 1 .. i - 1 : seq[j] # x) - 1
    ELSE 0 - 1

\* the element renderTasks creates for a task, << >> when it creates none:
\* the start cell exists for the hours 0 to 23 of the seven columns
TaskItem(task, dates, filters) ==
    LET dayIndex  == IndexOf(dates, task.date)
        startHour == task.startTime[1]
    IN  IF dayIndex # 0 - 1 /\ startHour \in 0 .. 23
        THEN << [firestoreId |-> task.firestoreId,
                 dayIndex    |-> dayIndex,
                 hour        |-> startHour,
                 hidden      |-> ~ filters[task.category]] >>
        ELSE << >>

RECURSIVE TaskItems(_, _, _)
TaskItems(list, dates, filters) ==
    IF list = << >> THEN << >>
    ELSE TaskItem(Head(list), dates, filters)
             \o TaskItems(Tail(list), dates, filters)

\* mutant: the elements of the previous rendering are not removed
renderTasks_keepsOld(items, list, dates, filters) ==
    items \o TaskItems(list, dates, filters)

\* renderTasks(): every .task-item is removed, then one is appended per task
\* of the list whose date is in the displayed week; items is the grid before
renderTasks(items, list, dates, filters) ==
    SelectSeq(items, LAMBDA item : FALSE) \o TaskItems(list, dates, filters)

\* renderTasks(): querySelectorAll(".task-item") also matches the clones of
\* task elements appended to document.body, which are removed with the rest
RemoveClones ==
    /\ bodyClones' = 0
    /\ dragClone' = IF dragClone = "attached" THEN "detached" ELSE dragClone
    /\ UNCHANGED << isDragging, dragTask, draggedElement,
                    autoScrollInterval, listening, timers, pending >>

\* the ids of a collection in ascending order
RECURSIVE IdsInOrder(_)
IdsInOrder(ids) ==
    IF ids = {} THEN << >>
    ELSE LET least == CHOOSE i \in ids : \A j \in ids : i <= j
         IN  << least >> \o IdsInOrder(ids \ {least})

\* the documents a snapshot of query(tasks, userId == uid) delivers
QuerySnapshot(uid) ==
    LET ids == IdsInOrder({t \in DOMAIN tasks : tasks[t].userId = uid})
    IN  [i \in 1 .. Len(ids) |->
            [firestoreId |-> ids[i],
             date        |-> tasks[ids[i]].date,
             startTime   |-> tasks[ids[i]].startTime,
             time        |-> tasks[ids[i]].time,
             category    |-> tasks[ids[i]].category]]

\* onSnapshot callback of loadTasks
OnTasksSnapshot ==
    /\ taskList' = QuerySnapshot(currentUser)
    /\ calendar' = renderTasks(calendar, taskList', weekDates, categoryFilters)
    /\ RemoveClones
    /\ UNCHANGED << call, groupVars, authVars, currentWeekOffset, weekDates,
                    categoryFilters, now, storeVars, run >>

\* changeWeek(offset)
changeWeek(offset) ==
    /\ currentWeekOffset + offset \in (0 - MaxWeekOffset) .. MaxWeekOffset
    /\ currentWeekOffset' = currentWeekOffset + offset
    /\ weekDates' = getWeekDates(now, currentWeekOffset')
    /\ calendar' = renderTasks(calendar, taskList, weekDates', categoryFilters)
    /\ RemoveClones
    /\ UNCHANGED << call, groupVars, authVars, taskList, categoryFilters, now,
                    storeVars, run >>

\* updateCategoryFilter(category, isChecked)
updateCategoryFilter(category, isChecked) ==
    /\ categoryFilters' = [categoryFilters EXCEPT ![category] = isChecked]
    /\ calendar' = renderTasks(calendar, taskList, weekDates, categoryFilters')
    /\ RemoveClones
    /\ UNCHANGED << call, groupVars, authVars, taskList, currentWeekOffset, weekDates,
                    now, storeVars, run >>

\* ------------------------------------------------- drag-and-drop, by event
\* cleanupDrag()
cleanupDrag ==
    /\ autoScrollInterval' = FALSE
    /\ timers' = IF autoScrollInterval THEN timers - 1 ELSE timers
    /\ dragClone' = "null"
    /\ bodyClones' = IF dragClone = "attached" THEN bodyClones - 1
                                               ELSE bodyClones
    /\ isDragging' = FALSE
    /\ dragTask' = None
    /\ draggedElement' = None

\* the task object the k-th element of the grid was rendered from
TaskOf(k) ==
    LET i == CHOOSE j \in 1 .. Len(taskList) :
                 taskList[j].firestoreId = calendar[k].firestoreId
    IN  taskList[i]

\* handleMouseDown(e, task, taskElement) on the k-th element of the grid,
\* not on its delete button
handleMouseDown(k) ==
    /\ k \in 1 .. Len(calendar)
    /\ isDragging' = FALSE
    /\ dragTask' = Some(TaskOf(k))
    /\ draggedElement' = Some(calendar[k].firestoreId)
    /\ listening' = TRUE
    /\ UNCHANGED << dragClone, autoScrollInterval, bodyClones, timers,
                    pending >>
    /\ UNCHANGED << call, groupVars, authVars, renderVars, now, storeVars, run >>

\* handleMouseMove / handleTouchMove and handleDragMove(x, y): moved says
\* that (x, y) is more than 3 pixels from the press, nearEdge that it is
\* within 50 pixels of an edge of the schedule box
handleDragMove(moved, nearEdge) ==
    /\ listening
    /\ dragTask # None
    /\ LET starts  == ~ isDragging /\ moved
           clone   == IF starts THEN "attached" ELSE dragClone
           cleared == IF autoScrollInterval THEN timers - 1 ELSE timers
       IN  /\ starts => bodyClones < MaxClones
           /\ isDragging' = (isDragging \/ moved)
           /\ dragClone' = clone
           /\ bodyClones' = IF starts THEN bodyClones + 1 ELSE bodyClones
           /\ IF (isDragging \/ moved) /\ clone # "null"
              THEN /\ autoScrollInterval' = nearEdge
                   /\ timers' = IF nearEdge THEN cleared + 1 ELSE cleared
              ELSE UNCHANGED << autoScrollInterval, timers >>
    /\ UNCHANGED << dragTask, draggedElement, listening, pending >>
    /\ UNCHANGED << call, groupVars, authVars, renderVars, now, storeVars, run >>

\* the startTime and time finishDrag computes for a drop on the row hour
DropTimes(task, hour) ==
    LET oldStartMinute  == task.startTime[2]
        oldStartMinutes == task.startTime[1] * 60 + task.startTime[2]
        oldEndMinutes   == task.time[1] * 60 + task.time[2]
        diff            == oldEndMinutes - oldStartMinutes
        durationMinutes == IF diff < 0 THEN diff + 24 * 60 ELSE diff
        newEndMinutes   == hour * 60 + oldStartMinute + durationMinutes
    IN  [startTime |-> << hour, oldStartMinute >>,
         time      |-> << (newEndMinutes \div 60) % 24, newEndMinutes % 60 >>]

\* handleMouseUp / handleTouchEnd: finishDrag() up to its await, or to its
\* end when it does not update; dayCell is the cell under the pointer or null
handleMouseUp(dayCell) ==
    /\ listening
    /\ listening' = FALSE
    /\ LET drops   == isDragging /\ dragTask # None /\ signedIn
                          /\ dayCell # None
           newDate == weekDates[dayCell[1].dayIndex + 1]
           times   == DropTimes(dragTask[1], dayCell[1].hour)
       IN  IF drops /\ (dragTask[1].date # newDate
                           \/ dragTask[1].startTime # times.startTime)
           THEN /\ Len(pending) < MaxPending
                /\ pending' = Append(pending,
                       [firestoreId |-> dragTask[1].firestoreId,
                        date        |-> newDate,
                        startTime   |-> times.startTime,
                        time        |-> times.time])
                /\ UNCHANGED << isDragging, dragTask, draggedElement,
                                dragClone, autoScrollInterval, bodyClones,
                                timers >>
           ELSE /\ cleanupDrag
                /\ UNCHANGED pending
    /\ UNCHANGED << call, groupVars, authVars, renderVars, now, storeVars, run >>

\* finishDrag() from the return of its updateDoc: ok says that the store
\* accepted the update; updateDoc of a deleted document is rejected
FinishDragSettles(ok) ==
    /\ pending # << >>
    /\ LET update == Head(pending)
       IN  IF ok /\ update.firestoreId \in DOMAIN tasks
           THEN tasks' = [tasks EXCEPT ![update.firestoreId] =
                             [@ EXCEPT !.date = update.date,
                                       !.startTime = update.startTime,
                                       !.time = update.time]]
           ELSE UNCHANGED tasks
    /\ pending' = Tail(pending)
    /\ cleanupDrag
    /\ UNCHANGED listening
    /\ UNCHANGED << call, groupVars, authVars, renderVars, now, reminders,
                    group_reminders, groups, groupCanon, nextTaskId,
                    nextReminderId, run >>

\* -------------------------------------------------------------------- groups
\* what the other variables do during a step of a createGroup / joinGroup call
GroupFrame ==
    UNCHANGED << call, pageVars, now, tasks, reminders, group_reminders,
                 groupCanon, nextTaskId, nextReminderId, run,
                 groupListeners, submitted >>

\* the locals of a call by uid as it reaches its first await
Called(fn, pc, uid, code) ==
    [IdleCall EXCEPT !.fn = fn, !.pc = pc, !.uid = uid, !.groupId = code,
                     !.before = << groups, userDocs >>]

\* catch (error): the notification "Failed to ...", return null / false
Caught(p) ==
    gcall' = [gcall EXCEPT ![p].pc = "done", ![p].result = "failed",
                           ![p].failed = TRUE]

\* createGroup(groupName) called in another browser session by uid
createGroup(p, uid) ==
    /\ gcall[p].pc = "idle"
    /\ gcall' = [gcall EXCEPT ![p] = Called("createGroup", "addDoc", uid, "")]
    /\ UNCHANGED << groups, userDocs, nextGroupId >>
    /\ GroupFrame

\* createGroup: await addDoc(collection(db, "groups"), groupData)
CG_addDoc(p, ok) ==
    /\ gcall[p].fn = "createGroup" /\ gcall[p].pc = "addDoc"
    /\ nextGroupId <= MaxGroups
    /\ IF ok
       THEN /\ groups' = Put(groups, NewGroupIds[nextGroupId],
                             [members |-> << gcall[p].uid >>])
            /\ nextGroupId' = nextGroupId + 1
            /\ gcall' = [gcall EXCEPT ![p].pc = "getDoc",
                                      ![p].groupId = NewGroupIds[nextGroupId]]
       ELSE /\ Caught(p)
            /\ UNCHANGED << groups, nextGroupId >>
    /\ UNCHANGED userDocs
    /\ GroupFrame

\* joinGroup(groupCode) called in another browser session by uid; the code
\* of a group is modelled by its id
joinGroup(p, uid, groupCode) ==
    /\ gcall[p].pc = "idle"
    /\ gcall' = [gcall EXCEPT ![p] =
                    Called("joinGroup", "getDocs", uid, groupCode)]
    /\ UNCHANGED << groups, userDocs, nextGroupId >>
    /\ GroupFrame

\* joinGroup: await getDocs(q), then the two early returns
JG_getDocs(p, ok) ==
    /\ gcall[p].fn = "joinGroup" /\ gcall[p].pc = "getDocs"
    /\ IF ~ ok THEN Caught(p)
       ELSE IF gcall[p].groupId \notin DOMAIN groups
       THEN gcall' = [gcall EXCEPT ![p].pc = "done",
                                   ![p].result = "Invalid group code"]
       ELSE IF \E i \in 1 .. Len(groups[gcall[p].groupId].members) :
                   groups[gcall[p].groupId].members[i] = gcall[p].uid
       THEN gcall' = [gcall EXCEPT ![p].pc = "done",
                          ![p].result = "You are already in this group"]
       ELSE gcall' = [gcall EXCEPT ![p].pc = "updateGroup",
                          ![p].members = groups[gcall[p].groupId].members]
    /\ UNCHANGED << groups, userDocs, nextGroupId >>
    /\ GroupFrame

\* joinGroup: await updateDoc(group, {members: [...groupData.members, uid]})
JG_updateGroup(p, ok) ==
    /\ gcall[p].fn = "joinGroup" /\ gcall[p].pc = "updateGroup"
    /\ gcall[p].groupId \in DOMAIN groups
    /\ IF ok
       THEN /\ groups' = [groups EXCEPT ![gcall[p].groupId].members =
                             Append(gcall[p].members, gcall[p].uid)]
            /\ gcall' = [gcall EXCEPT ![p].pc = "getDoc"]
       ELSE /\ Caught(p)
            /\ UNCHANGED groups
    /\ UNCHANGED << userDocs, nextGroupId >>
    /\ GroupFrame

\* both functions: const userDoc = await getDoc(userRef); the user document
\* exists since ensureUserDocument
G_getDoc(p, ok) ==
    /\ gcall[p].pc = "getDoc"
    /\ IF ok
       THEN gcall' = [gcall EXCEPT ![p].pc = "updateDoc",
                          ![p].currentGroups = userDocs[gcall[p].uid].groups]
       ELSE Caught(p)
    /\ UNCHANGED << groups, userDocs, nextGroupId >>
    /\ GroupFrame

\* both functions: await updateDoc(userRef, {groups: [...currentGroups, id]}),
\* the success notification and the return
G_updateDoc(p, ok) ==
    /\ gcall[p].pc = "updateDoc"
    /\ IF ok
       THEN /\ userDocs' = [userDocs EXCEPT ![gcall[p].uid].groups =
                               Append(gcall[p].currentGroups, gcall[p].groupId)]
            /\ gcall' = [gcall EXCEPT ![p].pc = "done", ![p].result = "ok"]
       ELSE /\ Caught(p)
            /\ UNCHANGED userDocs
    /\ UNCHANGED << groups, nextGroupId >>
    /\ GroupFrame

\* the caller takes the result: the slot is free again
G_Return(p) ==
    /\ gcall[p].pc = "done"
    /\ gcall' = [gcall EXCEPT ![p] = IdleCall]
    /\ UNCHANGED << groups, userDocs, nextGroupId >>
    /\ GroupFrame

\* the steps of a joinGroup call in slot p, every store call succeeding or
\* failing
JoinCall(p) ==
    \E ok \in BOOLEAN :
        \/ JG_getDocs(p, ok)
        \/ JG_updateGroup(p, ok)
        \/ G_getDoc(p, ok)
        \/ G_updateDoc(p, ok)

\* the steps of the call in slot p
GroupCall(p) ==
    \/ \E ok \in BOOLEAN : CG_addDoc(p, ok)
    \/ JoinCall(p)

\* the submit listeners of a group form run one after the other, each up to
\* the first await of the function it calls; with no user signed in the
\* function returns at once
Submit(form, fn, pc, code) ==
    /\ \A p \in GroupCalls : gcall[p].pc = "idle"
    /\ submitted' = [form |-> form, calls |-> groupListeners]
    /\ gcall' = [p \in GroupCalls |->
                    IF signedIn /\ p <= groupListeners
                    THEN Called(fn, pc, currentUser, code) ELSE IdleCall]
    /\ UNCHANGED << call, pageVars, now, storeVars, run, userDocs,
                    nextGroupId, groupListeners >>

\* createGroupForm submit
CreateGroupFormSubmit == Submit("createGroupForm", "createGroup", "addDoc", "")

\* joinGroupForm submit
JoinGroupFormSubmit(groupCode) ==
    Submit("joinGroupForm", "joinGroup", "getDocs", groupCode)

\* ------------------------------------------------------------ sign-in state
\* onAuthStateChanged callback: user is the signed-in user or null
onAuthStateChanged(user) ==
    /\ signedIn' = user
    /\ IF user
       THEN UNCHANGED << taskList, calendar, dragVars >>
       ELSE /\ taskList' = << >>
            /\ calendar' = renderTasks(calendar, << >>, weekDates,
                                       categoryFilters)
            /\ RemoveClones
    /\ groupListeners' = Min(groupListeners + 1, MaxListeners)
    /\ UNCHANGED << call, entry, currentWeekOffset, weekDates,
                    categoryFilters, now, storeVars, run, userDocs,
                    nextGroupId, gcall, submitted >>

\* an entry point invoked with no user signed in: it returns (or throws)
\* before any store call; notice is what showNotification was called with
NoUser(name, notice) ==
    /\ ~ signedIn
    /\ entry' = [name |-> name, notice |-> notice]
    /\ UNCHANGED << call, groupVars, signedIn, renderVars, dragVars, now, storeVars,
                    run >>

\* taskForm submit: showNotification("Please login first", "error"); return
TaskFormSubmit_noUser == NoUser("taskForm", "Please login first")
\* deleteTask: if (!currentUser) return
deleteTask_noUser == NoUser("deleteTask", "none")
\* finishDrag: the update is skipped, cleanupDrag()
FinishDrag_noUser == NoUser("finishDrag", "none")
\* add-reminder-form submit: auth.currentUser.uid throws a TypeError
addReminder_noUser == NoUser("add-reminder-form", "none")
\* checkbox click: auth.currentUser.uid throws a TypeError
toggleReminderCompleted_noUser == NoUser("checkbox", "none")
\* auto-schedule-btn click: console.error(...); return
autoSchedule_noUser == NoUser("auto-schedule-btn", "none")
\* createGroup: showNotification("Please login first", "error"); return null
createGroup_noUser == NoUser("createGroup", "Please login first")
\* joinGroup: showNotification("Please login first", "error"); return false
joinGroup_noUser == NoUser("joinGroup", "Please login first")

\* Spec: one tab; the user fills the calendar and the reminder lists with
\* schedulable reminders, drags tasks, and presses the auto-schedule button;
\* no other handler runs while an autoSchedule is in progress
CoreDue == { Some(StartDay - 1), Some(StartDay) }
CoreEstimates == { Some(180), Some(360) }

Next ==
    \/ \E d \in FormDates, s \in FormStarts, e \in FormEnds :
           Quiescent /\ TaskFormSubmit(d, s, e)
    \/ \E t \in DOMAIN tasks, d \in FormDates, h \in DragHours :
           Quiescent /\ FinishDrag(t, d, h)
    \/ \E d \in CoreDue, e \in CoreEstimates :
           Quiescent /\ addReminder(d, e)
    \/ \E d \in CoreDue, e \in CoreEstimates :
           Quiescent /\ addGroupReminder(GroupId, d, e)
    \/ Scheduler(1)

Spec == Init /\ [][Next]_vars

\* SpecElig: the reminder forms with every kind of input (no due date; no,
\* zero or negative estimate) and the completion checkboxes
NextElig ==
    \/ \E d \in DueInputs, e \in EstimateInputs :
           Quiescent /\ addReminder(d, e)
    \/ \E d \in DueInputs, e \in EstimateInputs :
           Quiescent /\ addGroupReminder(GroupId, d, e)
    \/ \E id \in DOMAIN reminders[currentUser] :
           Quiescent /\ toggleReminderCompleted(currentUser, id,
                            reminders[currentUser][id].is_completed)
    \/ \E id \in DOMAIN group_reminders[currentUser] :
           Quiescent /\ toggleGroupReminderCompleted(currentUser, id,
                            group_reminders[currentUser][id].is_completed)
    \/ Scheduler(1)

SpecElig == Init /\ [][NextElig]_vars

\* SpecForm: the task form with and without an end time, and drags of the
\* tasks it stored
AnyStarts == { << 18, 0 >>, << 23, 30 >> }
AnyEnds   == { None, Some(<< 18, 0 >>), Some(<< 21, 0 >>), Some(<< 23, 59 >>) }
AnyHours  == { 0, 23 }

NextForm ==
    \/ \E d \in FormDates, s \in AnyStarts, e \in AnyEnds :
           TaskFormSubmit(d, s, e)
    \/ \E t \in DOMAIN tasks, d \in Dates, h \in AnyHours :
           FinishDrag(t, d, h)

SpecForm == Init /\ [][NextForm]_vars

\* SpecDrop: tasks are created by the form and dropped on cells of today's
\* and tomorrow's column
DropDates == { StartDay, StartDay + 1 }

NextDrop ==
    \/ \E s \in AnyStarts, e \in FormEnds :
           TaskFormSubmit(StartDay, s, e)
    \/ \E t \in DOMAIN tasks, d \in DropDates, h \in AnyHours :
           FinishDrag(t, d, h)

SpecDrop == Init /\ [][NextDrop]_vars

\* SpecSignedOut: the user signs in and out and uses the entry points in
\* both states
NextSignedOut ==
    \/ \E user \in BOOLEAN : onAuthStateChanged(user)
    \/ \E d \in FormDates, s \in FormStarts, e \in FormEnds :
           Quiescent /\ TaskFormSubmit(d, s, e)
    \/ \E d \in CoreDue, e \in CoreEstimates : Quiescent /\ addReminder(d, e)
    \/ \E t \in DOMAIN tasks : Quiescent /\ deleteTask(t)
    \/ Scheduler(1)
    \/ TaskFormSubmit_noUser
    \/ deleteTask_noUser
    \/ FinishDrag_noUser
    \/ addReminder_noUser
    \/ toggleReminderCompleted_noUser
    \/ autoSchedule_noUser
    \/ createGroup_noUser
    \/ joinGroup_noUser

SpecSignedOut == Init /\ [][NextSignedOut]_vars

\* SpecRender: tasks are created, moved between today and tomorrow and
\* deleted; snapshots arrive at any time, the week is changed and the
\* filter of the category of the form's tasks is toggled
RenderHours == { 18 }
FilterInputs == { "study" }

NextRender ==
    \/ \E e \in FormEnds : TaskFormSubmit(StartDay, << 18, 0 >>, e)
    \/ \E t \in DOMAIN tasks, d \in DropDates, h \in RenderHours :
           FinishDrag(t, d, h)
    \/ \E t \in DOMAIN tasks : deleteTask(t)
    \/ OnTasksSnapshot
    \/ \E offset \in { 0 - 1, 1 } : changeWeek(offset)
    \/ \E c \in FilterInputs, isChecked \in BOOLEAN :
           updateCategoryFilter(c, isChecked)
    \/ onAuthStateChanged(FALSE)
    \/ onAuthStateChanged(TRUE)

SpecRender == Init /\ [][NextRender]_vars

\* SpecDrag: tasks are created and rendered, and the pointer presses task
\* elements, moves and releases over today's 18:00 cell, yesterday's 23:00
\* cell or no cell; the user signs out and in
DropCells == { None,
               Some([dayIndex |-> IndexOf(weekDates, StartDay), hour |-> 18]),
               Some([dayIndex |-> IndexOf(weekDates, StartDay - 1),
                     hour |-> 23]) }

NextDrag ==
    \/ TaskFormSubmit(StartDay, << 18, 0 >>, Some(<< 21, 0 >>))
    \/ OnTasksSnapshot
    \/ \E k \in 1 .. MaxTasks : handleMouseDown(k)
    \/ \E moved \in BOOLEAN, nearEdge \in BOOLEAN :
           handleDragMove(moved, nearEdge)
    \/ \E dayCell \in DropCells : handleMouseUp(dayCell)
    \/ \E ok \in BOOLEAN : FinishDragSettles(ok)
    \/ onAuthStateChanged(FALSE)
    \/ onAuthStateChanged(TRUE)

SpecDrag == Init /\ [][NextDrag]_vars

\* SpecAuthForms: auth events arrive and the group forms are submitted
JoinInputs == { GroupId, "NOCODE" }

NextAuthForms ==
    \/ onAuthStateChanged(FALSE)
    \/ onAuthStateChanged(TRUE)
    \/ CreateGroupFormSubmit
    \/ \E groupCode \in JoinInputs : JoinGroupFormSubmit(groupCode)
    \/ \E p \in GroupCalls : GroupCall(p)
    \/ \E p \in GroupCalls : G_Return(p)

SpecAuthForms == InitJoin /\ [][NextAuthForms]_vars

\* SpecJoin: u1 and u2 join the group from their own browser sessions
NextJoin ==
    \/ \E p \in GroupCalls, uid \in Users :
           /\ \A q \in GroupCalls : gcall[q].uid # uid
           /\ joinGroup(p, uid, GroupId)
    \/ \E p \in GroupCalls : JoinCall(p)
    \/ \E p \in GroupCalls : G_Return(p)

SpecJoin == InitJoin /\ [][NextJoin]_vars

\* SpecGroupFail: one call at a time, of createGroup or joinGroup by u1 or u2
NextGroupFail ==
    \/ \E uid \in Users : createGroup(1, uid)
    \/ \E uid \in Users, groupCode \in JoinInputs : joinGroup(1, uid, groupCode)
    \/ GroupCall(1)
    \/ G_Return(1)

SpecGroupFail == InitJoin /\ [][NextGroupFail]_vars

\* SpecToggle: reminders are created and their checkboxes clicked; a
\* checkbox passes the is_completed of the card it was rendered with
\* (shown), which is the stored value or, when it is clicked again before
\* the next snapshot, its opposite
NextToggle ==
    \/ \E d \in CoreDue, e \in CoreEstimates : addReminder(d, e)
    \/ \E d \in CoreDue, e \in CoreEstimates :
           addGroupReminder(GroupId, d, e)
    \/ \E id \in DOMAIN reminders[currentUser], shown \in BOOLEAN :
           toggleReminderCompleted(currentUser, id, shown)
    \/ \E id \in DOMAIN group_reminders[currentUser], shown \in BOOLEAN :
           toggleGroupReminderCompleted(currentUser, id, shown)

SpecToggle == Init /\ [][NextToggle]_vars

\* SpecDelete: scheduled reminders whose tasks the user deletes
NextDelete ==
    \/ \E d \in CoreDue, e \in CoreEstimates :
           Quiescent /\ addReminder(d, e)
    \/ \E d \in CoreDue, e \in CoreEstimates :
           Quiescent /\ addGroupReminder(GroupId, d, e)
    \/ \E t \in DOMAIN tasks : Quiescent /\ deleteTask(t)
    \/ \E r \in 1 .. MaxReminders : Quiescent /\ ConfirmDelete(r)
    \/ Scheduler(1)

SpecDelete == Init /\ [][NextDelete]_vars

\* SpecFail: the store may reject a write of the run, and the page may be
\* closed while the run is in progress
NextFail ==
    \/ \E d \in CoreDue, e \in CoreEstimates :
           Quiescent /\ addReminder(d, e)
    \/ \E d \in CoreDue, e \in CoreEstimates :
           Quiescent /\ addGroupReminder(GroupId, d, e)
    \/ Scheduler(1)
    \/ AS_WriteFails(1)
    \/ AS_Teardown(1)

SpecFail == Init /\ [][NextFail]_vars

\* SpecConc: two invocations of autoSchedule for the same user (two tabs)
\* whose awaits interleave
NextConc ==
    \/ \E e \in CoreEstimates :
           Quiescent /\ addReminder(Some(StartDay), e)
    \/ \E e \in CoreEstimates :
           Quiescent /\ addGroupReminder(GroupId, Some(StartDay), e)
    \/ \E p \in Runs : Scheduler(p)

SpecConc == Init /\ [][NextConc]_vars

\* SpecOrder: group reminders due today and some days ahead, scheduled by
\* runs that follow one another
FarDue == { Some(StartDay), Some(StartDay + 2), Some(StartDay + 3) }

NextOrder ==
    \/ \E d \in FarDue, e \in CoreEstimates :
           Quiescent /\ addGroupReminder(GroupId, d, e)
    \/ Scheduler(1)

SpecOrder == Init /\ [][NextOrder]_vars

\* SpecRerun: reminders are added while no task exists; from the first run
\* that creates a task on, nothing happens but further runs
NextRerun ==
    \/ \E d \in CoreDue, e \in CoreEstimates :
           Quiescent /\ nextTaskId = 1 /\ addReminder(d, e)
    \/ \E d \in CoreDue, e \in CoreEstimates :
           Quiescent /\ nextTaskId = 1 /\ addGroupReminder(GroupId, d, e)
    \/ Scheduler(1)

SpecRerun == Init /\ [][NextRerun]_vars

\* SpecSlot: findSlotForEstimate applied on its own to the busy lists a
\* date can have.  A task of the form has start < end, or end = start when
\* the end field is left empty; a drag keeps the duration and takes the end
\* modulo 24h, so the end of a dragged task can be before its start; a task
\* of the scheduler can end at "24:00".
SlotStarts == { << 17, 0 >>, << 18, 0 >>, << 21, 0 >>, << 23, 0 >>, << 23, 30 >> }
SlotEnds   == { << 18, 0 >>, << 21, 0 >>, << 23, 0 >>, << 23, 30 >>,
                << 24, 0 >>, << 2, 0 >> }
Durations  == { 1, 30, 180, 300, 360 }

BusyIntervals ==
    { iv \in [start : SlotStarts, end : SlotEnds] :
        iv.end = << 24, 0 >> => timeToMinutes(iv.start) >= startOfDay }

BusyLists == UNION { [1 .. n -> BusyIntervals] : n \in 0 .. MaxBusy }

InitSlot ==
    /\ InitStore
    /\ call \in [fn : {"findSlotForEstimate"}, busy : BusyLists,
                 duration : Durations, done : {FALSE}, result : {None}]

\* findSlotForEstimate(busy, date, duration) for the date StartDay
ApplyFindSlot ==
    /\ call.fn = "findSlotForEstimate"
    /\ ~ call.done
    /\ call' = [call EXCEPT
                   !.done = TRUE,
                   !.result = findSlotForEstimate(
                       [d \in Dates |-> IF d = StartDay THEN call.busy ELSE << >>],
                       StartDay, call.duration)]
    /\ UNCHANGED << now, pageVars, groupVars, storeVars, run >>

NextSlot == ApplyFindSlot

SpecSlot == InitSlot /\ [][NextSlot]_vars

\* SpecDuration: calculateDuration applied on its own to the start and end
\* strings a task can have, and to a missing one
ClockHours   == { 0, 12, 23 }
ClockMinutes == { 0, 1, 4, 5, 15, 30 }
ClockTimes   == { None } \cup { Some(<< h, m >>) : h \in ClockHours, m \in ClockMinutes }

InitDuration ==
    /\ InitStore
    /\ call \in [fn : {"calculateDuration"}, startTime : ClockTimes,
                 endTime : ClockTimes, done : {FALSE}, result : {0}]

ApplyCalculateDuration ==
    /\ call.fn = "calculateDuration"
    /\ ~ call.done
    /\ call' = [call EXCEPT
                   !.done = TRUE,
                   !.result = calculateDuration(call.startTime, call.endTime)]
    /\ UNCHANGED << now, pageVars, groupVars, storeVars, run >>

NextDuration == ApplyCalculateDuration

SpecDuration == InitDuration /\ [][NextDuration]_vars

\* SpecParse: timeToMinutes applied on its own, and findSlotForEstimate
\* applied to a date with one task, where the time strings of the task may
\* lack the colon ("18") or be empty ("")
ParseStrings == { << 0, 0 >>, << 18, 0 >>, << 23, 59 >>, << 24, 0 >>,
                  << 18 >>, << 0 >> }

InitParse ==
    /\ InitStore
    /\ call \in
         [fn : {"timeToMinutes"}, timeStr : ParseStrings,
          done : {FALSE}, result : {0}]
         \cup
         [fn : {"findSlotForEstimate"},
          busy : { << iv >> : iv \in [start : ParseStrings, end : ParseStrings] },
          duration : Durations, done : {FALSE}, result : {None}]

ApplyTimeToMinutes ==
    /\ call.fn = "timeToMinutes"
    /\ ~ call.done
    /\ call' = [call EXCEPT !.done = TRUE,
                            !.result = timeToMinutes(call.timeStr)]
    /\ UNCHANGED << now, pageVars, groupVars, storeVars, run >>

NextParse == ApplyTimeToMinutes \/ ApplyFindSlot

SpecParse == InitParse /\ [][NextParse]_vars

\* ================================================================= claims
\* the document of the reminder a run read, as the store holds it now
Stored(type, id) ==
    IF type = "group" THEN group_reminders[currentUser][id]
                      ELSE reminders[currentUser][id]

\* the minutes of its date a task from start to end occupies: an end that
\* is numerically before the start is past midnight, so the task is busy
\* until 24:00 of its date
Occupied(start, end) ==
    [s |-> timeToMinutes(start),
     e |-> IF timeToMinutes(end) < timeToMinutes(start) THEN endOfDay
           ELSE timeToMinutes(end)]

Overlaps(a, b) == a.s < b.e /\ b.s < a.e

\* C1: after a run completes, on every date each interval the run created
\* or moved overlaps neither another interval placed by the same run nor a
\* task interval that was on that date when the run started.
C1_NoDoubleBookingInRun ==
    \A p \in Runs :
        run[p].pc = "done" =>
            \A k \in 1 .. Len(run[p].placed) :
                LET x == run[p].placed[k]
                IN  /\ \A j \in 1 .. Len(run[p].placed) :
                           (j # k /\ run[p].placed[j].date = x.date) =>
                               ~ Overlaps(Occupied(x.start, x.end),
                                          Occupied(run[p].placed[j].start,
                                                   run[p].placed[j].end))
                    /\ \A n \in 1 .. Len(run[p].tasks) :
                           run[p].tasks[n].date = x.date =>
                               ~ Overlaps(Occupied(x.start, x.end),
                                          Occupied(run[p].tasks[n].startTime,
                                                   run[p].tasks[n].time))

\* C2: a run creates a task only for a reminder whose eventLink is null in
\* the store; for a reminder that has an eventLink it writes the linked task
\* in place: same id, no task document added.
C2_UpdateInPlace ==
    [][\A p \in Runs :
          (InLoop(p) /\ ~ Skipped(CurR(p)) /\ run'[p] # run[p]) =>
              IF TruthyObj(Stored(CurR(p).type, CurR(p).id).eventLink)
              THEN /\ DOMAIN tasks' = DOMAIN tasks
                   /\ nextTaskId' = nextTaskId
                   /\ Len(run'[p].placed) > Len(run[p].placed) =>
                          LET x == run'[p].placed[Len(run'[p].placed)]
                          IN  /\ ~ x.created
                              /\ Some(x.task) =
                                   Stored(CurR(p).type, CurR(p).id).eventLink
                              /\ tasks'[x.task].date = x.date
              ELSE DOMAIN tasks' \ DOMAIN tasks \subseteq {nextTaskId}]_vars

\* a second run has rewritten, in place, the task a first run created
C2_Witness ==
    \E p \in Runs :
        /\ run[p].pc = "done"
        /\ \E k \in 1 .. Len(run[p].placed) :
               /\ ~ run[p].placed[k].created
               /\ run[p].placed[k].task \in DOMAIN tasks

\* C3: once the run has linked a reminder that had no eventLink, the
\* reminder's eventLink is the id of the task the run created for it, for
\* personal reminders and for group copies.
C3_LinkIsCreatedTask ==
    \A p \in Runs :
        \A k \in 1 .. Len(run[p].placed) :
            LET x == run[p].placed[k]
            IN  (x.created /\ ~ (run[p].pc = "link" /\ k = Len(run[p].placed))) =>
                    Stored(x.type, x.id).eventLink = Some(x.task)

\* a run has created and linked a task for a personal reminder and for a
\* group copy
C3_Witness ==
    \E p \in Runs :
        /\ run[p].pc = "done"
        /\ \E k, j \in 1 .. Len(run[p].placed) :
               /\ run[p].placed[k].created /\ run[p].placed[k].type = "personal"
               /\ run[p].placed[j].created /\ run[p].placed[j].type = "group"
               /\ Stored("group", run[p].placed[j].id).eventLink
                      = Some(run[p].placed[j].task)

\* C4: every date a run creates or updates a task on is today or later,
\* also for a reminder whose due date is past.
C4_NeverBeforeToday ==
    \A p \in Runs :
        \A k \in 1 .. Len(run[p].placed) :
            run[p].placed[k].date >= run[p].placed[k].today

\* the first date of today .. due that has a slot of the duration, with its
\* slot; None when no date of the range has one
RECURSIVE EarliestInRange(_, _, _, _)
EarliestInRange(busy, d, due, duration) ==
    IF d > due THEN None
    ELSE IF findSlotForEstimate(busy, d, duration) # None
         THEN Some([dateStr |-> d,
                    slot |-> findSlotForEstimate(busy, d, duration)[1]])
         ELSE EarliestInRange(busy, d + 1, due, duration)

\* C5: for a reminder due today or later the run places the task on the
\* earliest date of today .. due date (inclusive) that has a free slot, on
\* the due date itself when only that date has room.
C5_EarliestDateThroughDue ==
    \A p \in Runs :
        (InLoop(p) /\ ~ Skipped(CurR(p))
                   /\ CurR(p).dueDate[1] >= toISODate(now)) =>
            Found(p) = EarliestInRange(run[p].busy, toISODate(now),
                                       CurR(p).dueDate[1], CurR(p).estimate[1])

\* C6: a run creates or moves a task only for a reminder that is not
\* completed, has a due date and has a strictly positive estimate.
C6_OnlyEligibleScheduled ==
    \A p \in Runs :
        \A k \in 1 .. Len(run[p].placed) :
            LET x == run[p].placed[k]
            IN  /\ x.estimate > 0
                /\ ~ Stored(x.type, x.id).is_completed
                /\ TruthyObj(Stored(x.type, x.id).due_date)

\* the eventLinks of the user's reminders, personal and group copies
LinksOf(pers, grp) ==
    { pers[id].eventLink : id \in DOMAIN pers }
        \cup { grp[id].eventLink : id \in DOMAIN grp }

\* C7: when deleteTask(t) has completed, no reminder of the user, personal
\* or group copy, has eventLink = t.
C7_DeleteClearsEveryLink ==
    [][\A t \in DOMAIN tasks :
          t \notin DOMAIN tasks' =>
              Some(t) \notin LinksOf(reminders'[currentUser],
                                     group_reminders'[currentUser])]_vars

\* C8: a rejected write stops only the reminder it was for: when a run has
\* come to its end after a rejected write, no reminder after that one is
\* left unprocessed.
C8_BatchContinuesAfterFailure ==
    \A p \in Runs :
        run[p].pc = "failed" => run[p].i >= Len(run[p].reminders)

\* C9: when a run has stopped between two writes (page closed, or a write
\* rejected), every task it created is the eventLink of its reminder.
C9_StoppedRunLeavesLinks ==
    \A p \in Runs :
        run[p].pc \in {"torn", "failed"} =>
            \A k \in 1 .. Len(run[p].placed) :
                run[p].placed[k].created =>
                    Stored(run[p].placed[k].type, run[p].placed[k].id).eventLink
                        = Some(run[p].placed[k].task)

\* C10: two runs are not coordinated: a run never sees what the other has
\* written since its own read, so two runs that read the same reminders and
\* the same tasks choose the same dates and slots, one placement after the
\* other, and the tasks they create are different documents.
C10_RunsNotCoordinated ==
    \A p, q \in Runs :
        (/\ p # q
         /\ run[p].pc \notin {"idle", "readTasks"}
         /\ run[q].pc \notin {"idle", "readTasks"}
         /\ run[p].tasks = run[q].tasks
         /\ run[p].reminders = run[q].reminders) =>
            \A k \in 1 .. Min(Len(run[p].placed), Len(run[q].placed)) :
                LET x == run[p].placed[k]
                    y == run[q].placed[k]
                IN  /\ x.type = y.type /\ x.id = y.id
                    /\ x.date = y.date /\ x.start = y.start /\ x.end = y.end
                    /\ (x.created /\ y.created) => x.task # y.task

\* the double booking: both runs are complete and the store holds two tasks,
\* one created by each, with overlapping intervals on the same date
C10_Witness ==
    /\ \A p \in Runs : run[p].pc = "done"
    /\ \E k \in 1 .. Len(run[1].placed), j \in 1 .. Len(run[2].placed) :
           LET x == run[1].placed[k]
               y == run[2].placed[j]
           IN  /\ x.created /\ y.created /\ x.task # y.task
               /\ x.task \in DOMAIN tasks /\ y.task \in DOMAIN tasks
               /\ tasks[x.task].date = tasks[y.task].date
               /\ Overlaps(Occupied(tasks[x.task].startTime, tasks[x.task].time),
                           Occupied(tasks[y.task].startTime, tasks[y.task].time))

\* the minutes of the date the k-th busy interval given to the slot finder
\* occupies
BusyOn(k) == Occupied(call.busy[k].start, call.busy[k].end)

\* duration minutes from minute c on lie in the window and overlap no busy
\* interval of the date
Free(c, duration) ==
    /\ c >= startOfDay
    /\ c + duration <= endOfDay
    /\ \A k \in 1 .. Len(call.busy) :
           ~ Overlaps([s |-> c, e |-> c + duration], BusyOn(k))

\* C11: a slot findSlotForEstimate returns has the length of the duration,
\* lies in the window 18:00 to 24:00, overlaps no busy interval of the date,
\* and no earlier start in the window has these properties.
C11_SlotIsEarliestFree ==
    (call.fn = "findSlotForEstimate" /\ call.done /\ call.result # None) =>
        LET s == timeToMinutes(call.result[1].start)
            e == timeToMinutes(call.result[1].end)
        IN  /\ e - s = call.duration
            /\ Free(s, call.duration)
            /\ \A c \in startOfDay .. s - 1 : ~ Free(c, call.duration)

\* C12: findSlotForEstimate returns null exactly when no start in the window
\* leaves the duration free.
C12_NoneIffNoGap ==
    (call.fn = "findSlotForEstimate" /\ call.done) =>
        (call.result = None <=>
            ~ \E c \in startOfDay .. endOfDay - call.duration :
                  Free(c, call.duration))

\* "HH:MM" of minutes taken modulo 1440
TimeStringMod(minutes) ==
    << (minutes % MinutesPerDay) \div 60, minutes % 60 >>

\* C13: the start and end strings of a returned slot are the minutes of the
\* slot modulo 1440 as HH:MM, so their hours are 00 to 23 and a slot that
\* ends at 24:00 has the end string "00:00".
C13_EndStringWraps ==
    (call.fn = "findSlotForEstimate" /\ call.done /\ call.result # None) =>
        LET s == timeToMinutes(call.result[1].start)
        IN  /\ call.result[1].start = TimeStringMod(s)
            /\ call.result[1].end = TimeStringMod(s + call.duration)
            /\ call.result[1].end[1] \in 0 .. 23

\* C14: a run takes its reminders in ascending order of due date, reminders
\* of one due date in the order they were read, and of two reminders it has
\* placed the one with the earlier due date has no later task date.
C14_DueOrderIsDateOrder ==
    \A p \in Runs :
        /\ run[p].pc \notin {"idle", "readTasks"} =>
               \A j, k \in 1 .. Len(run[p].reminders) :
                   j < k => DueKey(run[p].reminders[j]) <= DueKey(run[p].reminders[k])
        /\ \A j, k \in 1 .. Len(run[p].placed) :
               run[p].placed[j].due < run[p].placed[k].due =>
                   run[p].placed[j].date <= run[p].placed[k].date

\* C15: a step that deletes a reminder of the user, personal or group copy,
\* leaves every task in the store, unchanged; the task the reminder linked
\* to is among them.
C15_DeleteReminderKeepsTasks ==
    [][(\E r \in 1 .. MaxReminders :
           \/ /\ r \in DOMAIN reminders[currentUser]
              /\ r \notin DOMAIN reminders'[currentUser]
           \/ /\ r \in DOMAIN group_reminders[currentUser]
              /\ r \notin DOMAIN group_reminders'[currentUser])
         => tasks' = tasks]_vars

\* a task the scheduler created is in the store after the reminder that
\* linked to it has been deleted
C15_Witness ==
    /\ Quiescent
    /\ \E t \in DOMAIN tasks :
           /\ tasks[t].category = "work"
           /\ Some(t) \notin LinksOf(reminders[currentUser],
                                     group_reminders[currentUser])

\* C16: every personal reminder and every group copy, of every user, has
\* finished_at non-null exactly when is_completed is true.
C16_FinishedIffCompleted ==
    \A u \in Users :
        /\ \A id \in DOMAIN reminders[u] :
               (reminders[u][id].finished_at # None)
                   <=> reminders[u][id].is_completed
        /\ \A id \in DOMAIN group_reminders[u] :
               (group_reminders[u][id].finished_at # None)
                   <=> group_reminders[u][id].is_completed

\* the checkboxes have been used: a personal reminder and a group copy of
\* the user are completed
C16_Witness ==
    /\ \E id \in DOMAIN reminders[currentUser] :
           reminders[currentUser][id].is_completed
    /\ \E id \in DOMAIN group_reminders[currentUser] :
           group_reminders[currentUser][id].is_completed

\* C17: every task in the store has an end time different from its start
\* time.
C17_PositiveDuration ==
    \A t \in DOMAIN tasks : tasks[t].time # tasks[t].startTime

\* C18: a drag of task t changes nothing but the date, start time and end
\* time of t: the task ids are the same, every other task is the same, the
\* name, category and owner of t are the same, and every reminder is the
\* same, so every eventLink that was t is still t.
C18_DragFrame ==
    [][\A t \in DOMAIN tasks, d \in FormDates, h \in DragHours :
          FinishDrag(t, d, h) =>
              /\ DOMAIN tasks' = DOMAIN tasks
              /\ \A x \in DOMAIN tasks \ {t} : tasks'[x] = tasks[x]
              /\ tasks'[t].name = tasks[t].name
              /\ tasks'[t].category = tasks[t].category
              /\ tasks'[t].userId = tasks[t].userId
              /\ reminders' = reminders
              /\ group_reminders' = group_reminders]_vars

\* a task the scheduler created has been dragged to the 23:00 row and its
\* reminder links to it
C18_Witness ==
    /\ Quiescent
    /\ \E t \in DOMAIN tasks :
           /\ tasks[t].category = "work"
           /\ tasks[t].startTime[1] \in DragHours
           /\ Some(t) \in LinksOf(reminders[currentUser],
                                  group_reminders[currentUser])

\* C19: a step that adds a canonical record to a group adds exactly one,
\* and leaves under every member of the group a copy under the id of the
\* canonical record with its title, its due date (compared as calendar
\* dates) and its estimate, not completed and with no eventLink.
C19_FanOutMatchesCanonical ==
    [][\A g \in DOMAIN groupCanon :
          \A id \in DOMAIN groupCanon'[g] \ DOMAIN groupCanon[g] :
              /\ DOMAIN groupCanon'[g] = DOMAIN groupCanon[g] \cup {id}
              /\ \A k \in 1 .. Len(groups[g].members) :
                     LET m == groups[g].members[k]
                         c == groupCanon'[g][id]
                     IN  /\ id \in DOMAIN group_reminders'[m]
                         /\ id \notin DOMAIN group_reminders[m]
                         /\ group_reminders'[m][id].title = c.title
                         /\ normalizeDate(group_reminders'[m][id].due_date)
                                = normalizeDate(c.due_date)
                         /\ group_reminders'[m][id].estimate_minutes
                                = c.estimate_minutes
                         /\ ~ group_reminders'[m][id].is_completed
                         /\ group_reminders'[m][id].eventLink = None]_vars

\* end minus start in minutes, plus 1440 when that is negative
WrappedMinutes(startTime, endTime) ==
    LET diff == timeToMinutes(endTime) - timeToMinutes(startTime)
    IN  IF diff < 0 THEN diff + MinutesPerDay ELSE diff

\* C20: for well-formed start and end strings the duration calculateDuration
\* returns, taken in minutes, is end minus start (plus 1440 when negative)
\* where that is at least the 5-minute minimum and the 5-minute minimum
\* otherwise: 23:30 to 00:15 gives 45 minutes, equal strings give 5.
C20_DurationWrapsAndClamps ==
    (/\ call.fn = "calculateDuration" /\ call.done
     /\ call.startTime # None /\ call.endTime # None) =>
        LET minutes == WrappedMinutes(call.startTime[1], call.endTime[1])
        IN  call.result * 60 = Max(minutes, 5) * PerHour

\* the string has the form HH:MM with an hour of the day and a minute
WellFormed(timeStr) ==
    Len(timeStr) = 2 /\ timeStr[1] \in 0 .. 23 /\ timeStr[2] \in 0 .. 59

\* the string splits at ":" into two parts
Splits(timeStr) == Len(timeStr) >= 2

\* C21: timeToMinutes returns a number of minutes in 0 .. 1439 for a
\* well-formed string; for a string that does not split into two parts
\* it returns no value, and neither does a call of findSlotForEstimate that
\* meets such a string: the call ends with an error at its caller.  (A call
\* that is done in the model has returned a value: no statement of the two
\* functions throws for a string.)
C21_MalformedTimeIsAnError ==
    /\ (call.fn = "timeToMinutes" /\ call.done) =>
           /\ WellFormed(call.timeStr) => call.result \in 0 .. MinutesPerDay - 1
           /\ Splits(call.timeStr)
    /\ (call.fn = "findSlotForEstimate" /\ call.done) =>
           \A k \in 1 .. Len(call.busy) :
               Splits(call.busy[k].start) /\ Splits(call.busy[k].end)

\* the k-th busy interval given to the slot finder ends numerically before
\* it starts: the task runs past midnight
RunsPastMidnight(k) ==
    timeToMinutes(call.busy[k].end) < timeToMinutes(call.busy[k].start)

\* C24: a slot findSlotForEstimate returns overlaps no span from the start
\* of a task that runs past midnight until 24:00 of the date.
C24_WrapTaskIsBusyToMidnight ==
    (call.fn = "findSlotForEstimate" /\ call.done /\ call.result # None) =>
        \A k \in 1 .. Len(call.busy) :
            RunsPastMidnight(k) =>
                ~ Overlaps([s |-> timeToMinutes(call.result[1].start),
                            e |-> timeToMinutes(call.result[1].end)],
                           [s |-> timeToMinutes(call.busy[k].start),
                            e |-> endOfDay])

\* C25: when runs follow one another with nothing changed in between, a
\* task that is in the store keeps its date, start time and end time.
C25_RerunKeepsPlacement ==
    [][\A t \in DOMAIN tasks :
          t \in DOMAIN tasks' =>
              /\ tasks'[t].date = tasks[t].date
              /\ tasks'[t].startTime = tasks[t].startTime
              /\ tasks'[t].time = tasks[t].time]_vars

\* minutes from the start to the end of a task, modulo 24 hours
DurationMod(task) ==
    (timeToMinutes(task.time) - timeToMinutes(task.startTime)) % MinutesPerDay

\* C26: a drop keeps the duration of the task modulo 24 hours and sets its
\* start to the hour of the target cell with the minutes of the old start.
C26_DropKeepsDuration ==
    [][\A t \in DOMAIN tasks, d \in DropDates, h \in AnyHours :
          FinishDrag(t, d, h) =>
              /\ DurationMod(tasks'[t]) = DurationMod(tasks[t])
              /\ tasks'[t].startTime = << h, tasks[t].startTime[2] >>]_vars

\* a task the form stored as 23:30-23:59 lies at 00:30-00:59 after a drop
C26_Witness ==
    \E t \in DOMAIN tasks :
        tasks[t].startTime = << 0, 30 >> /\ tasks[t].time = << 0, 59 >>

\* C22: an entry point invoked with no user signed in writes nothing to the
\* store and shows the user a message.
C22_SignedOutRefusesWithMessage ==
    [][(~ signedIn /\ entry' # entry) =>
          /\ storeVars' = storeVars
          /\ userDocs' = userDocs
          /\ entry'.notice # "none"]_vars

\* the ids of the tasks of the latest snapshot dated in the displayed week
ShownIds ==
    { taskList[i].firestoreId : i \in
        { j \in 1 .. Len(taskList) :
            \E k \in 1 .. 7 : weekDates[k] = taskList[j].date } }

DragsOver == ~ listening /\ pending = << >>

\* C27: once every press, move and release sequence is over the drag state
\* is reset (not dragging, no dragged task, no dragged element, no clone, no
\* auto-scroll timer), and there is never more than one auto-scroll timer.
C27_DragStateReset ==
    /\ timers <= 1
    /\ DragsOver =>
           /\ ~ isDragging
           /\ dragTask = None
           /\ draggedElement = None
           /\ dragClone = "null"
           /\ bodyClones = 0
           /\ ~ autoScrollInterval
           /\ timers = 0

\* C28: one submission of the create-group form or of the join-group form
\* makes exactly one call of createGroup or joinGroup, however many auth
\* events have arrived.
C28_OneCallPerSubmission ==
    submitted.form # "none" => submitted.calls = 1

\* uid occurs in the member list of group g
IsMember(g, uid) ==
    \E i \in 1 .. Len(groups[g].members) : groups[g].members[i] = uid

\* C29: when the joinGroup calls of two different users have both returned
\* success, both are members of the group, and no user is a member twice.
C29_BothJoinersAreMembers ==
    /\ \A p, q \in GroupCalls :
           (/\ gcall[p].fn = "joinGroup" /\ gcall[p].result = "ok"
            /\ gcall[q].fn = "joinGroup" /\ gcall[q].result = "ok"
            /\ gcall[p].uid # gcall[q].uid
            /\ gcall[p].groupId = gcall[q].groupId) =>
               /\ IsMember(gcall[p].groupId, gcall[p].uid)
               /\ IsMember(gcall[p].groupId, gcall[q].uid)
    /\ \A g \in DOMAIN groups :
           \A i, j \in 1 .. Len(groups[g].members) :
               groups[g].members[i] = groups[g].members[j] => i = j

\* C30: when createGroup or joinGroup has returned null or false because a
\* store call failed, the groups and the users collection are as they were
\* when it was called.
C30_FailedCallWritesNothing ==
    \A p \in GroupCalls :
        (gcall[p].pc = "done" /\ gcall[p].failed) =>
            << groups, userDocs >> = gcall[p].before

====
